---- MODULE Spec2Model ----
(***************************************************************************)
(* A model of caliban/docker.py: the Dockerfile fragment library and its   *)
(* composer, the image-id extractor, the build driver, the registry        *)
(* publisher and the three run entry points.                               *)
(*                                                                         *)
(* Text is a sequence of lines, each line a string; the output of the      *)
(* docker engine is a sequence of one-character strings so that            *)
(* str.splitlines and str.split can be computed as Python computes them.   *)
(***************************************************************************)
EXTENDS Integers, Sequences, FiniteSets, TLC

\* ---------------------------------------------------------------- bounds
MaxOutputLen == 4
MaxExtraDirs == 2

\* ------------------------------------------------- Python values
\* None, for a value of type Optional[str].
None == "None"
\* None and a present value, for an Optional of a list or of an object.
Absent == <<>>
Some(x) == <<x>>
IsAbsent(o) == Len(o) = 0
Get(o) == o[1]

\* ------------------------------------------------- module constants
DEV_CONTAINER_ROOT == "gcr.io/blueshift-playground/blueshift"
TF_VERSIONS == {"2.0.0", "1.12.3", "1.14.0", "1.15.0"}
DEFAULT_WORKDIR == "/usr/app"
CREDS_DIR == "/.creds"

\* ------------------------------------------------- host environment
getuid == "1000"
getgid == "1001"
current_user == "alice"
getcwd == "/home/alice/proj"
Path_home == "/home/alice"

\* caliban.config.gpu
gpu(job_mode) == job_mode = "GPU"

\* ------------------------------------------------- string helpers
RECURSIVE join(_, _)
\* str.join over a list of strings.
join(sep, l) ==
  IF Len(l) = 0 THEN ""
  ELSE IF Len(l) = 1 THEN l[1]
  ELSE l[1] \o sep \o join(sep, Tail(l))

join_never_raises(l) == FALSE

\* str.join raises TypeError when an item of the list is not a str.
join_raises(l) == \E i \in 1..Len(l) : l[i] = None

RECURSIVE json_items(_)
json_items(l) ==
  IF Len(l) = 0 THEN <<>> ELSE <<"\"" \o l[1] \o "\"">> \o json_items(Tail(l))

\* json.dumps of a list of strings.
json_dumps(l) == "[" \o join(", ", json_items(l)) \o "]"

\* ------------------------------------------------- base images
\* [exc |-> the exception raised or None, val |-> the value returned]
Ok(v) == [exc |-> None, val |-> v]
Raise(e) == [exc |-> e, val |-> None]

tf_base_image(job_mode, tensorflow_version) ==
  IF tensorflow_version \notin TF_VERSIONS
  THEN Raise("Exception")
  ELSE Ok("tensorflow/tensorflow:" \o tensorflow_version
          \o (IF gpu(job_mode) THEN "-gpu" ELSE "") \o "-py3")

base_image_suffix(job_mode) == IF gpu(job_mode) THEN "gpu" ELSE "cpu"

base_image_id(job_mode) == DEV_CONTAINER_ROOT \o ":" \o base_image_suffix(job_mode)

extras_string(extras) ==
  IF Len(extras) > 0 THEN "." \o "[" \o join(",", extras) \o "]" ELSE "."

\* ------------------------------------------------- fragment library
_dependency_entries(workdir, user_id, user_group, requirements_path, setup_extras) ==
  LET s == IF ~IsAbsent(setup_extras)
           THEN << "",
                   "COPY --chown=" \o user_id \o ":" \o user_group \o " setup.py " \o workdir,
                   "RUN /bin/bash -c \"pip install " \o extras_string(Get(setup_extras)) \o "\"" >>
           ELSE <<>>
      r == IF requirements_path # None
           THEN << "",
                   "COPY --chown=" \o user_id \o ":" \o user_group \o " "
                      \o requirements_path \o " " \o workdir,
                   "RUN /bin/bash -c \"pip install -r " \o requirements_path \o "\"" >>
           ELSE <<>>
  IN s \o r

_package_entries(workdir, user_id, user_group, package) ==
  LET owner == user_id \o ":" \o user_group
      arg == IF package.main_module \notin {None, ""}
             THEN package.main_module ELSE package.script_path
      entrypoint_s == json_dumps(package.executable \o <<arg>>)
  IN << "",
        "# Copy project code into the docker container.",
        "COPY --chown=" \o owner \o " " \o package.package_path \o " "
           \o workdir \o "/" \o package.package_path,
        "",
        "# Declare an entrypoint that actually runs the container.",
        "ENTRYPOINT " \o entrypoint_s,
        "  " >>

_credentials_entries(credentials_path, user_id, user_group, docker_credentials_dir) ==
  LET dir == IF docker_credentials_dir = None THEN CREDS_DIR ELSE docker_credentials_dir
      container_creds == dir \o "/credentials.json"
  IN << "",
        "COPY --chown=" \o user_id \o ":" \o user_group \o " "
           \o credentials_path \o " " \o container_creds,
        "",
        "# Use the credentials file to activate gcloud, gsutil inside the container.",
        "RUN gcloud auth activate-service-account --key-file=" \o container_creds,
        "",
        "ENV GOOGLE_APPLICATION_CREDENTIALS=" \o container_creds >>

_notebook_entries(version) ==
  LET version_suffix == IF version # None THEN "==" \o version ELSE ""
  IN << "", "RUN pip install jupyterlab" \o version_suffix >>

_custom_shell_entries_any_shell(shell_cmd, user_id, user_group) ==
  IF shell_cmd # None
  THEN << "", "USER root", "",
          "RUN apt-get update &&       apt-get install -y --no-install-recommends zsh &&       rm -rf /var/lib/apt/lists/*",
          "", "USER " \o user_id \o ":" \o user_group >>
  ELSE <<>>

_custom_shell_entries(shell_cmd, user_id, user_group) ==
  IF shell_cmd # None /\ shell_cmd = "/bin/zsh"
  THEN << "", "USER root", "",
          "RUN apt-get update &&       apt-get install -y --no-install-recommends zsh &&       rm -rf /var/lib/apt/lists/*",
          "", "USER " \o user_id \o ":" \o user_group >>
  ELSE <<>>

_copy_dir_entry(workdir, user_id, user_group, dirname) ==
  LET owner == user_id \o ":" \o user_group
  IN << "# Copy " \o dirname \o " into the Docker container.",
        "COPY --chown=" \o owner \o " " \o dirname \o " " \o workdir \o "/" \o dirname >>

RECURSIVE _extra_dir_entries(_, _, _, _)
_extra_dir_entries(workdir, user_id, user_group, extra_dirs) ==
  IF Len(extra_dirs) = 0 THEN <<>>
  ELSE <<"">> \o _copy_dir_entry(workdir, user_id, user_group, extra_dirs[1])
       \o _extra_dir_entries(workdir, user_id, user_group, Tail(extra_dirs))

\* ------------------------------------------------- specification composer
\* The preamble block of _dockerfile_template.
Preamble(base_image, workdir, uid, gid, username) ==
  << "",
     "FROM " \o base_image,
     "",
     "# Create the same group we're using on the host machine.",
     "RUN groupadd --gid " \o gid \o " " \o gid,
     "",
     "# Create the user by name.",
     "RUN useradd --no-create-home -u " \o uid \o " -g " \o gid
        \o " --shell /bin/bash " \o username,
     "",
     "# The directory is created by root. This sets permissions so that any user can",
     "# access the folder.",
     "RUN mkdir -m 777 " \o workdir \o " " \o CREDS_DIR \o " /home/" \o username,
     "",
     "ENV HOME=/home/" \o username,
     "",
     "WORKDIR " \o workdir,
     "",
     "USER " \o uid \o ":" \o gid >>

\* The working directory and the base image _dockerfile_template resolves.
ResolveWorkdir(workdir) == IF workdir = None THEN DEFAULT_WORKDIR ELSE workdir

\* base_image_fn is None (base_image_id) or the version that tf_base_image
\* is partially applied to.
ResolveBaseImage(job_mode, base_image_fn) ==
  IF base_image_fn = None THEN Ok(base_image_id(job_mode))
  ELSE tf_base_image(job_mode, base_image_fn)

Fragments_package_before_shell(o, workdir, uid, gid) ==
  _dependency_entries(workdir, uid, gid, o.requirements_path, o.setup_extras)
  \o (IF o.inject_notebook THEN _notebook_entries(o.jupyter_version) ELSE <<>>)
  \o (IF o.credentials_path # None
      THEN _credentials_entries(o.credentials_path, uid, gid, None) ELSE <<>>)
  \o (IF ~IsAbsent(o.extra_dirs)
      THEN _extra_dir_entries(workdir, uid, gid, Get(o.extra_dirs)) ELSE <<>>)
  \o (IF ~IsAbsent(o.package)
      THEN _package_entries(workdir, uid, gid, Get(o.package)) ELSE <<>>)
  \o _custom_shell_entries(o.shell_cmd, uid, gid)

\* The fragments after the preamble, in the order the code appends them.
Fragments(o, workdir, uid, gid) ==
  _dependency_entries(workdir, uid, gid, o.requirements_path, o.setup_extras)
  \o (IF o.inject_notebook THEN _notebook_entries(o.jupyter_version) ELSE <<>>)
  \o (IF o.credentials_path # None
      THEN _credentials_entries(o.credentials_path, uid, gid, None) ELSE <<>>)
  \o (IF ~IsAbsent(o.extra_dirs)
      THEN _extra_dir_entries(workdir, uid, gid, Get(o.extra_dirs)) ELSE <<>>)
  \o _custom_shell_entries(o.shell_cmd, uid, gid)
  \o (IF ~IsAbsent(o.package)
      THEN _package_entries(workdir, uid, gid, Get(o.package)) ELSE <<>>)

_dockerfile_template(job_mode, o) ==
  LET uid == getuid
      gid == getgid
      username == current_user
      workdir == ResolveWorkdir(o.workdir)
      base_image == ResolveBaseImage(job_mode, o.base_image_fn)
  IN IF base_image.exc # None THEN base_image
     ELSE Ok(Preamble(base_image.val, workdir, uid, gid, username)
             \o Fragments(o, workdir, uid, gid))

\* ------------------------------------------------- identifier extractor
Chars == {"a", "b", " ", "\n"}
LineBreaks == {"\n", "\r", "\f"}
Whitespace == {" ", "\t", "\n", "\r", "\f"}

\* The strings of at most MaxOutputLen characters, as character sequences.
Outputs == UNION {[1..n -> Chars] : n \in 0..MaxOutputLen}

\* What the engine prints in the build driver's runs.
EngineOutputs == UNION {[1..n -> {"a", "\n"}] : n \in 0..MaxOutputLen}

RECURSIVE Str(_)
\* The string a character sequence stands for.
Str(cs) == IF Len(cs) = 0 THEN "" ELSE cs[1] \o Str(Tail(cs))

\* The index of the first line break of s, or 0.
FirstBreak(s) ==
  IF \E i \in 1..Len(s) : s[i] \in LineBreaks
  THEN CHOOSE i \in 1..Len(s) :
         s[i] \in LineBreaks /\ \A j \in 1..(i - 1) : s[j] \notin LineBreaks
  ELSE 0

RECURSIVE splitlines(_)
\* str.splitlines: a final line break opens no further line.
splitlines(s) ==
  IF Len(s) = 0 THEN <<>>
  ELSE LET i == FirstBreak(s)
           n == IF i > 0 /\ i < Len(s) /\ s[i] = "\r" /\ s[i + 1] = "\n"
                THEN i + 1 ELSE i
       IN IF i = 0 THEN <<s>>
          ELSE <<SubSeq(s, 1, i - 1)>> \o splitlines(SubSeq(s, n + 1, Len(s)))

RECURSIVE split(_)
\* str.split with no separator: the maximal runs of non-whitespace characters.
split(s) ==
  IF Len(s) = 0 THEN <<>>
  ELSE IF s[1] \in Whitespace THEN split(Tail(s))
  ELSE LET stop == IF \E i \in 1..Len(s) : s[i] \in Whitespace
                   THEN (CHOOSE i \in 1..Len(s) :
                           s[i] \in Whitespace
                           /\ \A j \in 1..(i - 1) : s[j] \notin Whitespace) - 1
                   ELSE Len(s)
       IN <<SubSeq(s, 1, stop)>> \o split(SubSeq(s, stop + 1, Len(s)))

last_or_empty(l) == IF Len(l) = 0 THEN Ok(<<>>) ELSE Ok(l[Len(l)])

\* list[-1], which raises IndexError on an empty list.
last(l) == IF Len(l) = 0 THEN Raise("IndexError") ELSE Ok(l[Len(l)])

\* The line of the output docker_image_id reads the identifier from.
id_line(lines) == last(lines)

docker_image_id(output) ==
  LET line == id_line(splitlines(output))
  IN IF line.exc # None THEN line
     ELSE LET tok == last(split(line.val))
          IN IF tok.exc # None THEN tok ELSE Ok(Str(tok.val))

\* ------------------------------------------------- inputs
JobModes == {"CPU", "GPU"}

\* The keyword arguments of _dockerfile_template, each at its default.
DefaultOpts ==
  [ workdir |-> None, base_image_fn |-> None, package |-> Absent,
    requirements_path |-> None, setup_extras |-> Absent,
    credentials_path |-> None, jupyter_version |-> None,
    inject_notebook |-> FALSE, shell_cmd |-> None, extra_dirs |-> Absent ]

Packages ==
  { [ executable |-> <<"python", "-m">>, main_module |-> "pkg.main",
      script_path |-> None, package_path |-> "pkg" ],
    [ executable |-> <<"/bin/bash">>, main_module |-> None,
      script_path |-> "pkg/run.sh", package_path |-> "pkg" ] }

DirNames == {"data", "conf"}
DirLists == UNION {[1..n -> DirNames] : n \in 0..MaxExtraDirs}
Shells == {"/bin/zsh", "/bin/fish"}
ExtrasLists == {<<>>, <<"gpu", "viz">>}

\* The options _dockerfile_template is called with.
TemplateOpts ==
  { [ DefaultOpts EXCEPT
        !.base_image_fn = b, !.package = p, !.requirements_path = r,
        !.setup_extras = s, !.credentials_path = c, !.jupyter_version = nb[2],
        !.inject_notebook = nb[1], !.shell_cmd = sh, !.extra_dirs = d ] :
      b \in {None, "2.0.0", "3.0.0"},
      p \in {Absent} \cup {Some(x) : x \in Packages},
      r \in {None, "requirements.txt"},
      s \in {Absent} \cup {Some(x) : x \in ExtrasLists},
      c \in {None, "key.json"},
      nb \in {<<FALSE, None>>, <<TRUE, None>>, <<TRUE, "1.2.0">>},
      sh \in {None} \cup Shells,
      d \in {Absent} \cup {Some(x) : x \in DirLists} }

\* The keyword arguments build_image and run are called with.
BuildKwargs ==
  { [ DefaultOpts EXCEPT
        !.base_image_fn = b, !.package = p, !.credentials_path = c,
        !.shell_cmd = sh ] :
      b \in {None, "3.0.0"},
      p \in {Absent, Some(CHOOSE x \in Packages : x.main_module # None)},
      c \in {None, "key.json"},
      sh \in {None, "/bin/zsh"} }

\* ------------------------------------------------- state
VARIABLES
  pc,       \* where the call in progress stands; "idle" between calls
  entry,    \* the function the caller invoked
  args,     \* its arguments
  result,   \* what it returned or raised
  cmds,     \* the docker commands the call has invoked, in order
  tmpfile,  \* whether the temporary credentials copy is on disk
  bframe,   \* the locals of build_image
  rframe    \* the locals of run

vars == <<pc, entry, args, result, cmds, tmpfile, bframe, rframe>>

NoBuild ==
  [ job_mode |-> "CPU", credentials_path |-> None, kwargs |-> DefaultOpts,
    caller |-> None, cred_path |-> None, dockerfile |-> <<>> ]

NoRun ==
  [ job_mode |-> "CPU", run_args |-> Absent, script_args |-> Absent,
    image_id |-> None, kwargs |-> DefaultOpts ]

Running == [exc |-> "running", val |-> None]

Init ==
  /\ pc = "idle"
  /\ entry = None
  /\ args = <<>>
  /\ result = Running
  /\ cmds = <<>>
  /\ tmpfile = FALSE
  /\ bframe = NoBuild
  /\ rframe = NoRun

\* A call of a top-level function: its arguments are recorded.
Enter(name, a) ==
  /\ pc = "idle"
  /\ entry' = name
  /\ args' = a
  /\ UNCHANGED <<cmds, tmpfile>>

\* A pure function called and returned from in one step.
Finish(name, a, r) ==
  /\ pc = "idle"
  /\ entry' = name
  /\ args' = a
  /\ result' = r
  /\ pc' = "done"
  /\ UNCHANGED <<cmds, tmpfile, bframe, rframe>>

Call_dockerfile_template ==
  /\ pc = "idle"
  /\ \E job_mode \in JobModes, o \in TemplateOpts :
    /\ <<job_mode, o.base_image_fn>> \in
         {<<"CPU", None>>, <<"GPU", None>>, <<"CPU", "2.0.0">>, <<"GPU", "3.0.0">>}
    /\ Finish("_dockerfile_template", [job_mode |-> job_mode, opts |-> o],
           _dockerfile_template(job_mode, o))

Call_docker_image_id ==
  /\ pc = "idle"
  /\ \E output \in Outputs :
    Finish("docker_image_id", [output |-> output], docker_image_id(output))

\* ------------------------------------------------- build driver
\* One docker command and what the engine answered.
Cmd(prog, argv, input, rc, output) ==
  [ prog |-> prog, argv |-> argv, input |-> input, rc |-> rc, output |-> output,
    creds_on_disk |-> tmpfile ]

\* caliban.util.TempCopy: the name of the copy made in the working directory.
TMP_CREDS == ".caliban_tmp_dev_key.json"

\* caliban.util.TempCopy.__enter__: None when there is no path to copy.
TempCopy_enter(original_path) ==
  IF original_path = None THEN None ELSE TMP_CREDS

\* caliban.util.TempCopy.__exit__: the copy is removed.
TempCopy_exit(on_disk) == FALSE

\* The with statement of build_image: leaving its block, by a return or by
\* an exception, runs TempCopy.__exit__.
with_leave_return_only(on_disk, r) ==
  IF r.exc = None THEN TempCopy_exit(on_disk) ELSE on_disk

with_leave(on_disk, r) == TempCopy_exit(on_disk)

\* caliban.util.capture_stdout: the output of a command that exited with 0,
\* CalledProcessError otherwise.
capture_stdout(rc, output) ==
  IF rc # 0 THEN Raise("CalledProcessError") ELSE Ok(output)

\* The try statement of build_image: CalledProcessError is logged and the
\* function falls off its end, returning None.
build_image_try(rc, output) ==
  LET out == capture_stdout(rc, output)
  IN IF out.exc = "CalledProcessError" THEN Ok(None)
     ELSE IF out.exc # None THEN out
     ELSE docker_image_id(out.val)

Call_build_image ==
  /\ pc = "idle"
  /\ \E job_mode \in JobModes, kw \in BuildKwargs :
    /\ Enter("build_image", [job_mode |-> job_mode, kwargs |-> kw])
    /\ bframe' = [ NoBuild EXCEPT !.job_mode = job_mode,
                                  !.credentials_path = kw.credentials_path,
                                  !.kwargs = kw, !.caller = "top" ]
    /\ pc' = "build_enter"
    /\ UNCHANGED <<result, rframe>>

\* build_image is left with r: a top-level call is over; run goes on with the
\* value returned, and is left by the exception raised.
BuildLeave(r) ==
  /\ tmpfile' = with_leave(tmpfile, r)
  /\ IF bframe.caller = "run" /\ r.exc = None
     THEN /\ rframe' = [rframe EXCEPT !.image_id = r.val]
          /\ pc' = "run_exec"
          /\ UNCHANGED result
     ELSE /\ result' = r
          /\ pc' = "done"
          /\ UNCHANGED rframe

\* with u.TempCopy(credentials_path) as cred_path: the copy is made, or the
\* copying fails and the block is never entered.
BuildEnter ==
  /\ pc = "build_enter"
  /\ \E copied \in BOOLEAN :
       IF bframe.credentials_path = None \/ copied
       THEN /\ bframe' = [bframe EXCEPT
                            !.cred_path = TempCopy_enter(bframe.credentials_path)]
            /\ tmpfile' = (tmpfile \/ bframe.credentials_path # None)
            /\ pc' = "build_compose"
            /\ UNCHANGED result
       ELSE /\ result' = Raise("OSError")
            /\ pc' = "done"
            /\ UNCHANGED <<bframe, tmpfile>>
  /\ UNCHANGED <<entry, args, cmds, rframe>>

\* dockerfile = _dockerfile_template(job_mode, credentials_path=cred_path, **kwargs)
BuildCompose ==
  /\ pc = "build_compose"
  /\ LET d == _dockerfile_template(
                bframe.job_mode,
                [bframe.kwargs EXCEPT !.credentials_path = bframe.cred_path])
     IN IF d.exc # None
        THEN BuildLeave(d) /\ UNCHANGED bframe
        ELSE /\ bframe' = [bframe EXCEPT !.dockerfile = d.val]
             /\ pc' = "build_exec"
             /\ UNCHANGED <<result, tmpfile, rframe>>
  /\ UNCHANGED <<entry, args, cmds>>

\* output = u.capture_stdout(cmd, input_str=dockerfile), then the identifier.
BuildExec ==
  /\ pc = "build_exec"
  /\ \E rc \in {0, 1}, output \in EngineOutputs :
       /\ rc # 0 => output = <<>>
       /\ cmds' = Append(cmds, Cmd("build",
                                   <<"docker", "build", "--rm", "-f-", getcwd>>,
                                   bframe.dockerfile, rc, output))
       /\ BuildLeave(build_image_try(rc, output))
  /\ UNCHANGED <<entry, args, bframe>>

\* ------------------------------------------------- registry publisher
image_tag(project_id, image_id) ==
  "gcr.io/" \o project_id \o "/" \o image_id \o ":latest"

check_false(rc) == Ok(None)

\* subprocess.run(..., check=True) raises CalledProcessError on a non-zero exit.
check_true(rc) == IF rc # 0 THEN Raise("CalledProcessError") ELSE Ok(None)

Call_push_uuid_tag ==
  /\ pc = "idle"
  /\ \E project_id \in {"my-proj", "other"}, image_id \in {"ab12cd34", "ffff0000"} :
    /\ Enter("push_uuid_tag", [project_id |-> project_id, image_id |-> image_id])
    /\ pc' = "push_tag"
    /\ UNCHANGED <<result, bframe, rframe>>

\* subprocess.run(["docker", "tag", image_id, image_tag], check=True)
PushTag ==
  /\ pc = "push_tag"
  /\ \E rc \in {0, 1} :
       /\ cmds' = Append(cmds, Cmd("tag",
                    <<"docker", "tag", args.image_id,
                      image_tag(args.project_id, args.image_id)>>, <<>>, rc, <<>>))
       /\ IF check_true(rc).exc # None
          THEN result' = check_true(rc) /\ pc' = "done"
          ELSE pc' = "push_push" /\ UNCHANGED result
  /\ UNCHANGED <<entry, args, tmpfile, bframe, rframe>>

\* subprocess.run(["docker", "push", image_tag], check=True); return image_tag
PushPush ==
  /\ pc = "push_push"
  /\ \E rc \in {0, 1} :
       /\ cmds' = Append(cmds, Cmd("push",
                    <<"docker", "push", image_tag(args.project_id, args.image_id)>>,
                    <<>>, rc, <<>>))
       /\ result' = IF check_true(rc).exc # None THEN check_true(rc)
                    ELSE Ok(image_tag(args.project_id, args.image_id))
       /\ pc' = "done"
  /\ UNCHANGED <<entry, args, tmpfile, bframe, rframe>>

\* ------------------------------------------------- run orchestrator
_run_cmd(job_mode, run_args) ==
  <<"docker", "run">>
  \o (IF gpu(job_mode) THEN <<"--runtime", "nvidia">> ELSE <<>>)
  \o <<"--ipc", "host">>
  \o (IF IsAbsent(run_args) THEN <<>> ELSE Get(run_args))

_home_mount_cmds(enable_home_mount) ==
  IF enable_home_mount
  THEN <<"-v", Path_home \o ":/home/" \o current_user>>
  ELSE <<>>

_interactive_opts(workdir) ==
  <<"-w", workdir, "-u", getuid \o ":" \o getgid, "-v", getcwd \o ":" \o workdir>>

\* os.environ.get("SHELL", "/bin/bash"); environ.SHELL is None when unset.
default_shell(environ) ==
  IF environ.SHELL = None THEN "/bin/bash" ELSE environ.SHELL

\* The command run hands to subprocess.call.
run_command(rf) ==
  _run_cmd(rf.job_mode, rf.run_args) \o <<rf.image_id>>
  \o (IF IsAbsent(rf.script_args) THEN <<>> ELSE Get(rf.script_args))

\* The shell run_interactive settles on.
resolve_shell_ignoring_mount(shell_cmd, mount_home, environ) ==
  IF shell_cmd = None THEN default_shell(environ) ELSE shell_cmd

resolve_shell(shell_cmd, mount_home, environ) ==
  IF shell_cmd = None
  THEN (IF mount_home THEN default_shell(environ) ELSE "/bin/bash")
  ELSE shell_cmd

\* run_interactive: the arguments it calls run with.
run_interactive(a, environ) ==
  LET workdir == ResolveWorkdir(a.workdir)
      run_args == IF IsAbsent(a.run_args) THEN <<>> ELSE Get(a.run_args)
      entrypoint_args ==
        IF IsAbsent(a.entrypoint_args) THEN <<>> ELSE Get(a.entrypoint_args)
      mount_home == IF IsAbsent(a.mount_home) THEN TRUE ELSE Get(a.mount_home)
      shell_cmd == resolve_shell(a.shell_cmd, mount_home, environ)
      entrypoint == IF a.entrypoint = None THEN shell_cmd ELSE a.entrypoint
      interactive_run_args ==
        _interactive_opts(workdir) \o <<"-it", "--entrypoint", entrypoint>>
        \o _home_mount_cmds(mount_home) \o run_args
  IN [ job_mode |-> a.job_mode,
       run_args |-> Some(interactive_run_args),
       script_args |-> Some(entrypoint_args),
       image_id |-> a.image_id,
       kwargs |-> [a.kwargs EXCEPT !.shell_cmd = shell_cmd, !.workdir = workdir] ]

\* The parameters of run_interactive, each at its default.
DefaultInteractive ==
  [ job_mode |-> "CPU", workdir |-> None, image_id |-> None, run_args |-> Absent,
    mount_home |-> Absent, shell_cmd |-> None, entrypoint |-> None,
    entrypoint_args |-> Absent, kwargs |-> DefaultOpts ]

Digits == <<"0", "1", "2", "3", "4", "5", "6", "7", "8", "9">>

RECURSIVE str_int(_)
\* The decimal text of a natural number, as an f-string renders it.
str_int(n) ==
  IF n < 10 THEN Digits[n + 1] ELSE str_int(n \div 10) \o Digits[(n % 10) + 1]

DEFAULT_PORT == 8888

\* The keywords run_notebook itself passes to run_interactive; one of them
\* given again in **run_interactive_kwargs is a TypeError.
NotebookKeywords ==
  {"entrypoint", "entrypoint_args", "inject_notebook", "jupyter_version"}

run_notebook_override_wins(a) ==
  LET port == IF IsAbsent(a.port) THEN DEFAULT_PORT ELSE Get(a.port)
      lab == IF IsAbsent(a.lab) THEN FALSE ELSE Get(a.lab)
      run_args == IF IsAbsent(a.run_args) THEN <<>> ELSE Get(a.run_args)
      jupyter_cmd == IF lab THEN "lab" ELSE "notebook"
      jupyter_args ==
        <<"-m", "jupyter", jupyter_cmd, "--ip=0.0.0.0",
          "--port=" \o str_int(port), "--no-browser">>
      docker_args == <<"-p", str_int(port) \o ":" \o str_int(port)>> \o run_args
  IN Ok([ DefaultInteractive EXCEPT
            !.job_mode = a.job_mode,
            !.image_id = a.kw.image_id,
            !.mount_home = a.kw.mount_home,
            !.entrypoint = IF a.kw.entrypoint # None THEN a.kw.entrypoint
                           ELSE "/opt/venv/bin/python",
            !.entrypoint_args = Some(jupyter_args),
            !.run_args = Some(docker_args),
            !.kwargs = [DefaultOpts EXCEPT !.inject_notebook = TRUE,
                                           !.jupyter_version = a.version] ])

\* run_notebook: the arguments it calls run_interactive with, or the
\* TypeError of the call.
run_notebook(a) ==
  LET port == IF IsAbsent(a.port) THEN DEFAULT_PORT ELSE Get(a.port)
      lab == IF IsAbsent(a.lab) THEN FALSE ELSE Get(a.lab)
      run_args == IF IsAbsent(a.run_args) THEN <<>> ELSE Get(a.run_args)
      jupyter_cmd == IF lab THEN "lab" ELSE "notebook"
      jupyter_args ==
        <<"-m", "jupyter", jupyter_cmd, "--ip=0.0.0.0",
          "--port=" \o str_int(port), "--no-browser">>
      docker_args == <<"-p", str_int(port) \o ":" \o str_int(port)>> \o run_args
  IN IF a.kw_keys \cap NotebookKeywords # {}
     THEN Raise("TypeError")
     ELSE Ok([ DefaultInteractive EXCEPT
                 !.job_mode = a.job_mode,
                 !.image_id = a.kw.image_id,
                 !.mount_home = a.kw.mount_home,
                 !.entrypoint = "/opt/venv/bin/python",
                 !.entrypoint_args = Some(jupyter_args),
                 !.run_args = Some(docker_args),
                 !.kwargs = [DefaultOpts EXCEPT !.inject_notebook = TRUE,
                                                !.jupyter_version = a.version] ])

ImageIds == {"ab12cd34"}
Environs == {[SHELL |-> sh] : sh \in {None} \cup Shells}

Call_run ==
  /\ pc = "idle"
  /\ \E job_mode \in JobModes,
     run_args \in {Absent, Some(<<>>), Some(<<"--rm">>)},
     script_args \in {Absent, Some(<<"--epochs", "2">>)},
     image_id \in {None} \cup ImageIds,
     kw \in BuildKwargs :
    LET a == [ job_mode |-> job_mode, run_args |-> run_args,
               script_args |-> script_args, image_id |-> image_id, kwargs |-> kw ]
    IN /\ Enter("run", a)
       /\ rframe' = a
       /\ pc' = "run_start"
       /\ UNCHANGED <<result, bframe>>

Call_run_interactive ==
  /\ pc = "idle"
  /\ \E image_id \in {None} \cup ImageIds,
     mount_home \in {Absent, Some(TRUE), Some(FALSE)},
     shell_cmd \in {None} \cup Shells,
     entrypoint \in {None, "/bin/sh"},
     c \in {None, "key.json"},
     environ \in Environs :
    LET a == [ DefaultInteractive EXCEPT
                 !.image_id = image_id, !.mount_home = mount_home,
                 !.shell_cmd = shell_cmd, !.entrypoint = entrypoint,
                 !.kwargs = [DefaultOpts EXCEPT !.credentials_path = c] ]
    IN /\ Enter("run_interactive", [a |-> a, environ |-> environ])
       /\ rframe' = run_interactive(a, environ)
       /\ pc' = "run_start"
       /\ UNCHANGED <<result, bframe>>

Call_run_notebook ==
  /\ pc = "idle"
  /\ \E job_mode \in JobModes,
        port \in {Absent, Some(8888), Some(9000)},
        lv \in {<<Absent, None>>, <<Some(TRUE), "1.2.0">>},
        run_args \in {Absent, Some(<<"--rm">>)},
        keys \in SUBSET {"entrypoint", "mount_home", "image_id"},
        entrypoint \in {None, "/bin/sh"},
        mount_home \in {Some(TRUE), Some(FALSE)},
        image_id \in ImageIds,
        environ \in {[SHELL |-> None], [SHELL |-> "/bin/zsh"]} :
       LET a == [ job_mode |-> job_mode, port |-> port, lab |-> lv[1],
                  version |-> lv[2], run_args |-> run_args, kw_keys |-> keys,
                  kw |-> [ entrypoint |-> IF "entrypoint" \in keys
                                          THEN entrypoint ELSE None,
                           mount_home |-> IF "mount_home" \in keys
                                          THEN mount_home ELSE Absent,
                           image_id |-> IF "image_id" \in keys
                                        THEN image_id ELSE None ] ]
           r == run_notebook(a)
       IN /\ Enter("run_notebook", [a |-> a, environ |-> environ])
          /\ IF r.exc # None
             THEN /\ result' = r
                  /\ pc' = "done"
                  /\ UNCHANGED rframe
             ELSE /\ rframe' = run_interactive(r.val, environ)
                  /\ pc' = "run_start"
                  /\ UNCHANGED result
          /\ UNCHANGED bframe

\* if image_id is None: image_id = build_image(job_mode, **build_image_kwargs)
RunStart ==
  /\ pc = "run_start"
  /\ IF rframe.image_id = None
     THEN /\ bframe' = [ NoBuild EXCEPT
                           !.job_mode = rframe.job_mode,
                           !.credentials_path = rframe.kwargs.credentials_path,
                           !.kwargs = rframe.kwargs, !.caller = "run" ]
          /\ pc' = "build_enter"
     ELSE /\ pc' = "run_exec"
          /\ UNCHANGED bframe
  /\ UNCHANGED <<entry, args, result, cmds, tmpfile, rframe>>

\* logging.info(f"... {' '.join(command)}"), then subprocess.call(command).
RunExec ==
  /\ pc = "run_exec"
  /\ IF join_raises(run_command(rframe))
     THEN /\ result' = Raise("TypeError")
          /\ UNCHANGED cmds
     ELSE \E rc \in {0, 1} :
            /\ cmds' = Append(cmds, Cmd("run", run_command(rframe), <<>>, rc, <<>>))
            /\ result' = Ok(None)
  /\ pc' = "done"
  /\ UNCHANGED <<entry, args, tmpfile, bframe, rframe>>

\* The caller takes the result; the next call starts from fresh locals.
Return ==
  /\ pc = "done"
  /\ pc' = "idle"
  /\ entry' = None
  /\ args' = <<>>
  /\ result' = Running
  /\ cmds' = <<>>
  /\ bframe' = NoBuild
  /\ rframe' = NoRun
  /\ UNCHANGED tmpfile

Next ==
  \/ Call_dockerfile_template
  \/ Call_docker_image_id
  \/ Call_build_image
  \/ BuildEnter
  \/ BuildCompose
  \/ BuildExec
  \/ Call_push_uuid_tag
  \/ PushTag
  \/ PushPush
  \/ Call_run
  \/ Call_run_interactive
  \/ Call_run_notebook
  \/ RunStart
  \/ RunExec
  \/ Return

Spec == Init /\ [][Next]_vars

\* ------------------------------------------------- properties
TemplateDone ==
  entry = "_dockerfile_template" /\ pc = "done" /\ result.exc = None

\* The rank of a line that marks a fragment, in the order of the composer:
\* 0 the preamble's FROM, 1 a dependency install, 2 the notebook install,
\* 3 the credentials activation, 4 an extra directory's comment, 5 the
\* custom shell's switch to root, 6 the ENTRYPOINT; -1 for any other line.
Rank(line, job_mode, o) ==
  LET w == ResolveWorkdir(o.workdir)
      dep == _dependency_entries(w, getuid, getgid, o.requirements_path, o.setup_extras)
  IN IF line = "FROM " \o ResolveBaseImage(job_mode, o.base_image_fn).val THEN 0
     ELSE IF \E i \in DOMAIN dep : i % 3 = 0 /\ line = dep[i] THEN 1
     ELSE IF line = _notebook_entries(o.jupyter_version)[2] THEN 2
     ELSE IF line = "RUN gcloud auth activate-service-account --key-file="
                      \o CREDS_DIR \o "/credentials.json" THEN 3
     ELSE IF \E d \in DirNames : line = "# Copy " \o d \o " into the Docker container."
          THEN 4
     ELSE IF line = "USER root" THEN 5
     ELSE IF ~IsAbsent(o.package)
             /\ line = _package_entries(w, getuid, getgid, Get(o.package))[6] THEN 6
     ELSE -1

\* The ranks of the marking lines of a text, in text order.
Ranks(text, job_mode, o) ==
  LET all == [i \in DOMAIN text |-> Rank(text[i], job_mode, o)]
  IN SelectSeq(all, LAMBDA r : r >= 0)

\* C1: in every text _dockerfile_template composes, the text starts with
\* the preamble, the fragments follow it in the order dependency, notebook,
\* credentials, extra directories, custom shell, package, and the package
\* fragment, when there is one, ends the text.
C1_FragmentOrder ==
  TemplateDone =>
    LET o == args.opts
        text == result.val
        w == ResolveWorkdir(o.workdir)
        pre == Preamble(ResolveBaseImage(args.job_mode, o.base_image_fn).val,
                        w, getuid, getgid, current_user)
        rs == Ranks(text, args.job_mode, o)
        rest == Ranks(SubSeq(text, Len(pre) + 1, Len(text)), args.job_mode, o)
    IN /\ Len(text) >= Len(pre)
       /\ SubSeq(text, 1, Len(pre)) = pre
       /\ \A i \in DOMAIN rest : rest[i] >= 1
       /\ \A i, j \in DOMAIN rs : i < j => rs[i] <= rs[j]
       /\ ~IsAbsent(o.package) =>
            LET pk == _package_entries(w, getuid, getgid, Get(o.package))
            IN /\ Len(text) >= Len(pre) + Len(pk)
               /\ SubSeq(text, Len(text) - Len(pk) + 1, Len(text)) = pk

\* All six fragments are selected and each has left its mark in the text.
C1_Witness ==
  /\ TemplateDone
  /\ args.opts.requirements_path # None
  /\ ~IsAbsent(args.opts.setup_extras)
  /\ args.opts.credentials_path # None
  /\ args.opts.shell_cmd = "/bin/zsh"
  /\ ~IsAbsent(args.opts.extra_dirs)
  /\ Ranks(result.val, args.job_mode, args.opts) = <<0, 1, 1, 2, 3, 4, 4, 5, 6>>

RecognizedShells == {"/bin/zsh"}

NoFragmentSelected(o) ==
  /\ o.requirements_path = None
  /\ IsAbsent(o.setup_extras)
  /\ o.credentials_path = None
  /\ IsAbsent(o.package)
  /\ ~o.inject_notebook
  /\ (IsAbsent(o.extra_dirs) \/ Len(Get(o.extra_dirs)) = 0)
  /\ o.shell_cmd \notin RecognizedShells

\* C2: with no fragment selected, the text _dockerfile_template composes is
\* the preamble block and nothing else.
C2_PreambleOnly ==
  (TemplateDone /\ NoFragmentSelected(args.opts)) =>
    result.val = Preamble(ResolveBaseImage(args.job_mode, args.opts.base_image_fn).val,
                          ResolveWorkdir(args.opts.workdir),
                          getuid, getgid, current_user)

\* Nothing is selected, the shell is one the code does not know and the
\* list of extra directories is empty.
C2_Witness ==
  /\ TemplateDone
  /\ NoFragmentSelected(args.opts)
  /\ args.opts.shell_cmd = "/bin/fish"
  /\ ~IsAbsent(args.opts.extra_dirs)
  /\ Len(result.val) = 18

ImageIdDone == entry = "docker_image_id" /\ pc = "done"

\* An output without a token: every character of it is whitespace.
NoUsableToken(output) == \A i \in DOMAIN output : output[i] \in Whitespace

\* C3: on an output without a token docker_image_id raises; it returns no
\* identifier.
C3_NoTokenRaises ==
  (ImageIdDone /\ NoUsableToken(args.output)) => result.exc = "IndexError"

C3_Witness ==
  /\ ImageIdDone
  /\ args.output = <<" ", "\n", " ">>
  /\ result.exc = "IndexError"

\* The last token of the last non-empty line of an output is the last
\* token of the output as a whole.
LastToken(output) == LET ts == split(output) IN Str(ts[Len(ts)])

\* C4: on an output with a token docker_image_id returns the last token of
\* the last non-empty line, blank lines after it or not.
C4_LastNonEmptyLine ==
  (ImageIdDone /\ ~NoUsableToken(args.output)) =>
    (result.exc = None /\ result.val = LastToken(args.output))

BuildCmds == SelectSeq(cmds, LAMBDA c : c.prog = "build")
RunCmds == SelectSeq(cmds, LAMBDA c : c.prog = "run")

\* C5: build_image invokes the build once, and a build that exits non-zero
\* is a failure its caller sees: build_image does not return normally.
C5_FailureSurfaced ==
  entry = "build_image" =>
    /\ Len(BuildCmds) <= 1
    /\ (pc = "done" /\ Len(BuildCmds) = 1 /\ BuildCmds[1].rc # 0) => result.exc # None

\* C6: the temporary credentials copy is on disk while build_image composes
\* and builds, and at no other time: it is gone once build_image is left,
\* by a return or by an exception, and no call starts with it on disk.
C6_TempCopyScoped ==
  /\ tmpfile => pc \in {"build_compose", "build_exec"}
  /\ (pc \in {"build_compose", "build_exec"} /\ bframe.credentials_path # None) => tmpfile
  /\ \A i \in DOMAIN cmds :
       cmds[i].prog = "build" =>
         cmds[i].creds_on_disk = (bframe.credentials_path # None)

\* build_image was left by the exception of the composition, with
\* credentials to copy.
C6_Witness ==
  /\ entry = "build_image"
  /\ pc = "done"
  /\ args.kwargs.credentials_path # None
  /\ result.exc = "Exception"
  /\ ~tmpfile

ExpectedTag(project_id, image_id) ==
  "gcr.io/" \o project_id \o "/" \o image_id \o ":latest"

\* C7: push_uuid_tag tags, then pushes, both on gcr.io/<project>/<image>:latest;
\* it pushes only after a tag command that exited with 0, and returns the
\* tag only when both exited with 0, raising otherwise.
C7_TagThenPush ==
  entry = "push_uuid_tag" =>
    LET t == ExpectedTag(args.project_id, args.image_id)
    IN /\ Len(cmds) <= 2
       /\ Len(cmds) >= 1 =>
            cmds[1].prog = "tag" /\ cmds[1].argv = <<"docker", "tag", args.image_id, t>>
       /\ Len(cmds) = 2 =>
            /\ cmds[2].prog = "push" /\ cmds[2].argv = <<"docker", "push", t>>
            /\ cmds[1].rc = 0
       /\ pc = "done" =>
            IF \A i \in DOMAIN cmds : cmds[i].rc = 0
            THEN Len(cmds) = 2 /\ result.exc = None /\ result.val = t
            ELSE result.exc = "CalledProcessError"

C7_Witness ==
  /\ entry = "push_uuid_tag"
  /\ pc = "done"
  /\ result.exc = None
  /\ result.val = "gcr.io/my-proj/ab12cd34:latest"
  /\ Len(cmds) = 2

\* The value that follows the first occurrence of a flag, or None.
FlagValue(argv, flag) ==
  IF \E i \in 1..(Len(argv) - 1) : argv[i] = flag
  THEN argv[(CHOOSE i \in 1..(Len(argv) - 1) :
               argv[i] = flag /\ \A j \in 1..(i - 1) : argv[j] # flag) + 1]
  ELSE None

HomeMount == "/home/alice:/home/alice"

\* C8: run_interactive called without shell_cmd: with the home mount on
\* (True, or None) the shell of the environment (SHELL, else /bin/bash) is
\* the shell_cmd of the build and, without an entrypoint given, the
\* --entrypoint; with it off both are /bin/bash and no home directory is
\* mounted.
C8_DefaultShell ==
  (entry = "run_interactive" /\ args.a.shell_cmd = None) =>
    LET on == IsAbsent(args.a.mount_home) \/ Get(args.a.mount_home)
        want == IF on
                THEN (IF args.environ.SHELL = None THEN "/bin/bash"
                      ELSE args.environ.SHELL)
                ELSE "/bin/bash"
    IN /\ rframe.kwargs.shell_cmd = want
       /\ pc \in {"build_compose", "build_exec"} => bframe.kwargs.shell_cmd = want
       /\ \A i \in DOMAIN cmds :
            cmds[i].prog = "run" =>
              /\ args.a.entrypoint = None =>
                   FlagValue(cmds[i].argv, "--entrypoint") = want
              /\ ~on => \A k \in DOMAIN cmds[i].argv : cmds[i].argv[k] # HomeMount
              /\ on => \E k \in DOMAIN cmds[i].argv : cmds[i].argv[k] = HomeMount

\* The home mount is off, SHELL names zsh, and the container was run.
C8_Witness ==
  /\ entry = "run_interactive"
  /\ args.a.shell_cmd = None
  /\ args.a.entrypoint = None
  /\ ~IsAbsent(args.a.mount_home)
  /\ ~Get(args.a.mount_home)
  /\ args.environ.SHELL = "/bin/zsh"
  /\ Len(RunCmds) = 1
  /\ FlagValue(RunCmds[1].argv, "--entrypoint") = "/bin/bash"

PortText(port) == IF IsAbsent(port) THEN "8888" ELSE str_int(Get(port))

\* What C9 says of the docker commands of a call of run_notebook.
NotebookCmdsOk ==
  \A i \in DOMAIN cmds :
    /\ cmds[i].prog = "run" =>
         /\ FlagValue(cmds[i].argv, "-p")
              = PortText(args.a.port) \o ":" \o PortText(args.a.port)
         /\ FlagValue(cmds[i].argv, "--entrypoint") = "/opt/venv/bin/python"
    /\ cmds[i].prog = "build" =>
         \E k \in DOMAIN cmds[i].input :
           cmds[i].input[k] \in {"RUN pip install jupyterlab",
                                 "RUN pip install jupyterlab==1.2.0"}

\* C9 as stated: every call of run_notebook, one with an entrypoint among
\* the interactive options included, ends in a run command that maps the
\* port, has the fixed entrypoint and rests on a notebook build. (A call
\* given an image needs no build, so nothing of the engine can stop it.)
C9_Original ==
  entry = "run_notebook" =>
    /\ NotebookCmdsOk
    /\ (pc = "done" /\ args.a.kw.image_id # None) => Len(RunCmds) = 1

\* C9 as amended: every run command of run_notebook maps the port and has
\* the fixed entrypoint on a notebook build, and a call that gives one of
\* run_notebook's own keywords again raises TypeError before any command.
C9_FixedEntrypoint ==
  entry = "run_notebook" =>
    /\ NotebookCmdsOk
    /\ (pc = "done" /\ args.a.kw.image_id # None /\ "entrypoint" \notin args.a.kw_keys)
         => Len(RunCmds) = 1
    /\ "entrypoint" \in args.a.kw_keys =>
         pc = "done" /\ result.exc = "TypeError" /\ Len(cmds) = 0

\* A notebook on port 9000 was built and run.
C9_Witness ==
  /\ entry = "run_notebook"
  /\ pc = "done"
  /\ ~IsAbsent(args.a.port)
  /\ Len(cmds) = 2
  /\ cmds[2].prog = "run"
  /\ FlagValue(cmds[2].argv, "-p") = "9000:9000"

\* The image the caller of a run entry point supplied, or None.
CallerImage ==
  IF entry = "run" THEN args.image_id
  ELSE IF entry = "run_interactive" THEN args.a.image_id
  ELSE args.a.kw.image_id

\* The image argument of a run command: the one before the script arguments.
ImageArg(c) ==
  c.argv[Len(c.argv) - (IF IsAbsent(rframe.script_args) THEN 0
                        ELSE Len(Get(rframe.script_args)))]

\* C10: a run command has the image the caller supplied, and then nothing
\* was built, or the identifier read from the output of the one build, which
\* exited with 0 and came first; after a failed build nothing is run.
C10_RunOnlyBuiltImage ==
  entry \in {"run", "run_interactive", "run_notebook"} =>
    /\ Len(BuildCmds) <= 1
    /\ Len(RunCmds) <= 1
    /\ \A i \in DOMAIN cmds :
         cmds[i].prog = "run" =>
           /\ ImageArg(cmds[i]) # None
           /\ IF CallerImage # None
              THEN ImageArg(cmds[i]) = CallerImage /\ Len(BuildCmds) = 0
              ELSE /\ i = 2
                   /\ cmds[1].prog = "build"
                   /\ cmds[1].rc = 0
                   /\ ~NoUsableToken(cmds[1].output)
                   /\ ImageArg(cmds[i]) = LastToken(cmds[1].output)

\* The build failed and run was left without running anything.
C10_Witness ==
  /\ entry = "run"
  /\ pc = "done"
  /\ Len(BuildCmds) = 1
  /\ BuildCmds[1].rc # 0
  /\ Len(RunCmds) = 0
  /\ result.exc = "TypeError"

====
